---- MODULE Spec2Model ----
(***************************************************************************)
(* Mokosh moderation bots (src/discord/main.py, src/telegram/app/main.py). *)
(* One behaviour is one bot: `platform` is chosen in Init and never        *)
(* changes, and `procs` are the processes that run it on one database.     *)
(* A handler is one coroutine of a process's event loop; an                *)
(* action is the code a handler runs between two suspension points         *)
(* (await of a network call).  Store calls are synchronous sqlite calls,   *)
(* so in one process they never interleave with another handler.  The      *)
(* running handlers are kept as a bag of their records: a handler has no   *)
(* identity beyond its position and locals.                                *)
(***************************************************************************)
EXTENDS Integers, Sequences, FiniteSets, Bags, TLC

\* ------------------------------------------------------------------ bounds
MaxHandlers == 2
MaxEvents == 3
MaxAttachments == 1

\* ------------------------------------------------------- program constants
BAN_VIOLATION_THRESHOLD == 2
\* 0.80, confidences are counted in hundredths
BAN_CONFIDENCE_THRESHOLD == 80

Scopes == {"s1"}
Users == {"u1", "u2"}
NoGuild == "none"
Confidences == {79, 80, 100}

\* ------------------------------------------------- the remote API's answers
\* A verdict is a JSON object.  /analyze/messages answers with is_bad,
\* the media endpoints with status, and an object may carry both.
TextVerdicts ==
    [is_bad : {TRUE}, confidence : Confidences]
        \cup {[is_bad |-> FALSE, confidence |-> 100]}

Verdicts ==
    TextVerdicts
        \cup [status : {"bad"}, confidence : Confidences]
        \cup [is_bad : {FALSE}, status : {"bad"}, confidence : Confidences]
        \cup {[status |-> "ok", confidence |-> 100],
              [is_bad |-> FALSE, status |-> "ok", confidence |-> 100]}

\* What the HTTP call yields: an exception (timeout, connection error, a
\* body that is no JSON), a bare verdict, or a batch envelope.
Bodies ==
    {[error |-> "timeout"]}
        \cup Verdicts
        \cup {[results |-> <<v>>] : v \in TextVerdicts}
        \cup {[results |-> <<>>]}

None == [none |-> TRUE]

Get(d, key, default) == IF key \in DOMAIN d THEN d[key] ELSE default

\* api_text: the decoded body, or element 0 of its results; None on any
\* exception (data["results"][0] of an empty list raises IndexError).
FailClosed(body) ==
    IF "error" \in DOMAIN body THEN [is_bad |-> TRUE, confidence |-> 100]
    ELSE IF "results" \in DOMAIN body
         THEN (IF Len(body.results) = 0 THEN [is_bad |-> TRUE, confidence |-> 100]
               ELSE body.results[1])
         ELSE body

Unnormalized(body) == IF "error" \in DOMAIN body THEN None ELSE body

api_text(body) ==
    IF "error" \in DOMAIN body THEN None
    ELSE IF "results" \in DOMAIN body
         THEN (IF Len(body.results) = 0 THEN None ELSE body.results[1])
         ELSE body

\* api_image / api_audio / api_video: the decoded body as it is.
api_media(body) == IF "error" \in DOMAIN body THEN None ELSE body

AlwaysBad(result) == TRUE

is_bad_result(result) ==
    Get(result, "is_bad", FALSE) \/ Get(result, "status", "") = "bad"

\* `if result and is_bad_result(result)`: None is falsy, a verdict object
\* (never empty here) is truthy.
verdict_is_harmful(result) == result # None /\ is_bad_result(result)

\* --------------------------------------------------------------- the store
\* The violations table: a row per (scope, user) that was ever written.
get_violations(table, s, u) ==
    IF <<s, u>> \in DOMAIN table THEN table[<<s, u>>] ELSE 0

KeyedByUser(table, s, u, count) ==
    [k \in DOMAIN table \cup {<<s, u>>} |->
        IF k[2] = u THEN count ELSE table[k]]

WholeScope(table, s, u, count) ==
    [k \in DOMAIN table \cup {<<s, u>>} |->
        IF k[1] = s THEN count ELSE table[k]]

set_violations(table, s, u, count) ==
    [k \in DOMAIN table \cup {<<s, u>>} |->
        IF k = <<s, u>> THEN count ELSE table[k]]

\* ------------------------------------------------------------ the settings
ALL_CATEGORIES ==
    <<"sexual", "verbal_abuse", "harassment", "gasslighting", "threat",
      "stalking", "other">>

\* DEFAULT_SETTINGS as the source writes it; min_confidence_for_action is
\* counted in hundredths, a category list is a sequence.  The Discord bot
\* has no mute_minutes and no auto_mute.
DefaultSettings(p) ==
    IF p = "discord"
    THEN [min_confidence_for_action |-> 55,
          mute_threshold_violations |-> 2,
          block_threshold_violations |-> 4,
          auto_warn |-> TRUE,
          auto_block |-> TRUE,
          instant_mute_categories |->
              <<"sexual", "verbal_abuse", "harassment", "gasslighting">>,
          instant_block_categories |-> <<"threat", "stalking">>,
          apply_only_if_not_safe |-> TRUE,
          tag_sender_in_reply |-> TRUE]
    ELSE [min_confidence_for_action |-> 55,
          mute_minutes |-> 60,
          mute_threshold_violations |-> 2,
          block_threshold_violations |-> 4,
          auto_warn |-> TRUE,
          auto_mute |-> TRUE,
          auto_block |-> TRUE,
          instant_mute_categories |->
              <<"sexual", "verbal_abuse", "harassment", "gasslighting">>,
          instant_block_categories |-> <<"threat", "stalking">>,
          apply_only_if_not_safe |-> TRUE,
          tag_sender_in_reply |-> TRUE]

\* A blob an administrator has stored with the editor: every field is moved
\* away from its default, as far as the editor of the platform lets it go.
TunedSettings(p) ==
    IF p = "discord"
    THEN [min_confidence_for_action |-> 90,
          mute_threshold_violations |-> 1,
          block_threshold_violations |-> 10,
          auto_warn |-> FALSE,
          auto_block |-> FALSE,
          instant_mute_categories |-> << >>,
          instant_block_categories |-> ALL_CATEGORIES,
          apply_only_if_not_safe |-> TRUE,
          tag_sender_in_reply |-> TRUE]
    ELSE [min_confidence_for_action |-> 100,
          mute_minutes |-> 10080,
          mute_threshold_violations |-> 1,
          block_threshold_violations |-> 100,
          auto_warn |-> FALSE,
          auto_mute |-> FALSE,
          auto_block |-> FALSE,
          instant_mute_categories |-> << >>,
          instant_block_categories |-> ALL_CATEGORIES,
          apply_only_if_not_safe |-> TRUE,
          tag_sender_in_reply |-> TRUE]

StoredOnly(defaults, blob) == blob

\* {**defaults, **blob}: every key of either, the blob's value first.
Overlay(defaults, blob) ==
    [k \in DOMAIN defaults \cup DOMAIN blob |->
        IF k \in DOMAIN blob THEN blob[k] ELSE defaults[k]]

\* get_settings over the settings table and the process's DEFAULT_SETTINGS
\* object: the overlay when the scope has a row, else a copy of the defaults.
get_settings(table, defaults, scope) ==
    IF scope \in DOMAIN table THEN Overlay(defaults, table[scope]) ELSE defaults

Unsaved(table, scope, blob) == table

\* save_settings: the row of the scope is inserted, or replaced as a whole.
\* json.dumps then json.loads gives back the same keys and values.
save_settings(table, scope, blob) ==
    [k \in DOMAIN table \cup {scope} |-> IF k = scope THEN blob ELSE table[k]]

VARIABLES
    platform,     \* "discord" or "telegram": which bot this behaviour runs
    procs,        \* the OS processes (event loops) that share the database
    settings,     \* the settings table: scope -> stored blob
    DEFAULT_SETTINGS, \* the process's DEFAULT_SETTINGS object
    views,        \* Discord: the settings views that are open
    edit,         \* history: the latest settings event
    violations,   \* the violations table
    text_channels,\* per guild, how many channels are named LOG_CHANNEL_NAME
    tasks,        \* the bag of running handlers: position and locals of each
    started,      \* how many events and commands were delivered so far
    detections,   \* history: per (scope, user), harmful events since the last reset
    calls         \* history: the classification calls made on their own

vars ==
    <<platform, procs, settings, DEFAULT_SETTINGS, views, edit, violations,
      text_channels, tasks, started, detections, calls>>

\* What the settings editor works on, and what the moderation works on.
editor == <<settings, DEFAULT_SETTINGS, views, edit>>

moderation == <<violations, text_channels, tasks, started, detections>>

\* A handler that is not running.  proc is its process; scope .. should_ban
\* are the locals of on_message / handle_* and apply_verdict.  History of
\* the current event: verdict, the outcome of its latest classification
\* call; attempted, the platform calls it made; writes, its ledger writes.
Idle ==
    [pc |-> "idle", proc |-> 1, kind |-> "none", scope |-> NoGuild,
     user |-> NoGuild, att |-> 0, prior |-> 0, vprior |-> 0, new_count |-> 0,
     confidence |-> 0, should_ban |-> FALSE, verdict |-> "none",
     attempted |-> {}, writes |-> 0]

Running == BagToSet(tasks)

\* A handler is started, goes on from t to t2, or returns (t2 is idle).
Launch(t2) ==
    tasks' = IF t2.pc = "idle" THEN tasks ELSE tasks (+) SetToBag({t2})

Move(t, t2) ==
    tasks' = IF t2.pc = "idle" THEN tasks (-) SetToBag({t})
             ELSE (tasks (-) SetToBag({t})) (+) SetToBag({t2})

InitCommon ==
    /\ platform \in {"discord", "telegram"}
    /\ violations = [k \in {} |-> 0]
    /\ text_channels = [g \in Scopes |-> 0]
    /\ tasks = EmptyBag
    /\ calls = << >>
    /\ started = 0
    /\ detections = [k \in Scopes \X Users |-> 0]

\* No history of a settings event.
NoEdit ==
    [n |-> 0, kind |-> "none", scope |-> NoGuild, field |-> "none",
     admin |-> FALSE, tag |-> "none", reps |-> 0, base |-> {},
     w |-> << >>, prior |-> << >>]

\* No settings row is stored, DEFAULT_SETTINGS is as written, no view is open.
InitEditor ==
    /\ settings = [k \in {} |-> DefaultSettings(platform)]
    /\ DEFAULT_SETTINGS = DefaultSettings(platform)
    /\ views = {}
    /\ edit = NoEdit

\* One bot process: every handler is a coroutine of the same event loop.
Init == InitCommon /\ InitEditor /\ procs = {1}

\* A coroutine runs until its next await: between get_violations and
\* set_violations of apply_verdict no other handler of the same process runs.
Free(p) == \A k \in Running : k.proc = p => k.pc # "set_violations"

Scheduled(t) == Free(t.proc)

\* discord.py runs every event in a task of its own.  The Telegram
\* Application is built with the default concurrent_updates = False: an
\* update is handled to its end before the next one is taken.
CanStart(p) ==
    /\ Free(p)
    /\ BagCardinality(tasks) < MaxHandlers
    /\ started < MaxEvents
    /\ platform = "telegram" => \A k \in Running : k.proc # p

\* History only: what a classification call came to, read off the HTTP
\* outcome itself: "failed" when the caller has no verdict (an exception, or
\* an envelope with no element), else "harmful" when the verdict has is_bad
\* true or status "bad", else "safe".
Outcome(body, endpoint) ==
    IF "error" \in DOMAIN body THEN "failed"
    ELSE LET enveloped == endpoint = "text" /\ "results" \in DOMAIN body
         IN IF enveloped /\ body.results = <<>> THEN "failed"
            ELSE LET v == IF enveloped THEN body.results[1] ELSE body
                 IN IF ("is_bad" \in DOMAIN v /\ v.is_bad)
                       \/ ("status" \in DOMAIN v /\ v.status = "bad")
                    THEN "harmful" ELSE "safe"

Observe(t, body, endpoint) == [t EXCEPT !.verdict = Outcome(body, endpoint)]

\* Whether the author of a Discord message is a Member of the guild is
\* asked only when a verdict is applied; Telegram has no such test.
Members(body, endpoint) ==
    IF platform = "discord" /\ Outcome(body, endpoint) = "harmful"
    THEN BOOLEAN ELSE {TRUE}

\* History only: a passive event of a member that was classified harmful
\* is one more detection of (scope, user).
Detected(t2, is_member) ==
    IF t2.verdict = "harmful" /\ is_member
    THEN [detections EXCEPT ![<<t2.scope, t2.user>>] = @ + 1]
    ELSE detections

\* The attachment loop of on_message: the next attachment, or the end.
NextAttachment(t) ==
    IF t.att > 0 THEN [t EXCEPT !.pc = "attachment_read"] ELSE Idle

\* An author that is a bot account.
BotUser == "bot"

\* `if not message.guild or message.author.bot: return`: a direct message
\* has no guild.
OnlyDMsIgnored(g, author) == g = NoGuild

ignored(g, author) == g = NoGuild \/ author = BotUser

\* `message.chat.type in ("group", "supergroup")`: a private chat or a
\* channel is no scope of the moderation.
in_group(c) == c \in Scopes

\* on_message (Discord): DMs and bots are ignored; prior and settings are
\* read; a non-blank text is classified first, else the attachments.
on_message ==
    /\ platform = "discord"
    /\ started' = started + 1
    /\ \E p \in procs, g \in Scopes \cup {NoGuild}, u \in Users \cup {BotUser},
          text \in BOOLEAN, n \in 0..MaxAttachments :
         LET t == [Idle EXCEPT !.proc = p, !.kind = "passive", !.scope = g,
                               !.user = u, !.att = n,
                               !.prior = get_violations(violations, g, u)]
         IN /\ CanStart(p)
            /\ Launch(IF ignored(g, u) THEN Idle
                      ELSE IF text THEN [t EXCEPT !.pc = "api_text"]
                      ELSE NextAttachment(t))
    /\ UNCHANGED <<platform, procs, calls, editor, violations, text_channels, detections>>

\* handle_text (Telegram): only groups and supergroups are moderated.
handle_text ==
    /\ platform = "telegram"
    /\ started' = started + 1
    /\ \E p \in procs, c \in Scopes \cup {NoGuild}, u \in Users :
         LET t == [Idle EXCEPT !.proc = p, !.kind = "passive", !.scope = c,
                               !.user = u,
                               !.prior = get_violations(violations, c, u)]
         IN /\ CanStart(p)
            /\ Launch(IF ~in_group(c) THEN Idle ELSE [t EXCEPT !.pc = "api_text"])
    /\ UNCHANGED <<platform, procs, calls, editor, violations, text_channels, detections>>

\* handle_voice / handle_photo / handle_video (Telegram): the file is
\* downloaded before it is classified; a video over 20 MB is skipped.
handle_media ==
    /\ platform = "telegram"
    /\ started' = started + 1
    /\ \E p \in procs, c \in Scopes \cup {NoGuild}, u \in Users,
          kind \in {"voice", "photo", "video"}, too_large \in BOOLEAN :
         LET t == [Idle EXCEPT !.proc = p, !.kind = "passive", !.scope = c,
                               !.user = u,
                               !.prior = get_violations(violations, c, u)]
         IN /\ CanStart(p)
            /\ Launch(IF ~in_group(c) \/ (kind = "video" /\ too_large) THEN Idle
                      ELSE [t EXCEPT !.pc = "download"])
    /\ UNCHANGED <<platform, procs, calls, editor, violations, text_channels, detections>>

\* -------------------------------------------------------------- apply_verdict
StalePrior(t) == t.prior

\* apply_verdict: prior = get_violations(scope, user), read when the verdict
\* is applied (not the snapshot on_message sent to the API).
verdict_prior(t) == get_violations(violations, t.scope, t.user)

NoIncrement(prior) == prior

CountTwice(prior) == prior + 2

Decrement(prior) == prior - 1

new_count(prior) == prior + 1

BanBySettings(count, confidence) ==
    \E g \in Scopes :
        LET st == get_settings(settings, DEFAULT_SETTINGS, g)
        IN /\ st.auto_block
           /\ count >= st.block_threshold_violations
           /\ confidence >= st.min_confidence_for_action

BanOnConfidenceAlone(count, confidence) ==
    confidence >= BAN_CONFIDENCE_THRESHOLD

BanAboveConfidence(count, confidence) ==
    count >= BAN_VIOLATION_THRESHOLD /\ confidence > BAN_CONFIDENCE_THRESHOLD

should_ban(count, confidence) ==
    count >= BAN_VIOLATION_THRESHOLD /\ confidence >= BAN_CONFIDENCE_THRESHOLD

\* apply_verdict up to get_violations.  t is the handler, t2 its record with
\* the verdict's outcome noted.  Discord returns at once when the author is
\* no Member (is_member: isinstance(message.author, discord.Member)).
apply_verdict(t, t2, result, is_member) ==
    IF platform = "discord" /\ ~is_member
    THEN Move(t, Idle)
    ELSE Move(t, [t2 EXCEPT !.pc = "set_violations", !.att = 0,
                            !.prior = 0, !.vprior = verdict_prior(t2),
                            !.confidence = Get(result, "confidence", 0)])

FirstEffect == IF platform = "discord" THEN "delete" ELSE "reply"

\* apply_verdict from set_violations to its first await: the new count is
\* written and the ban decision taken.
apply_verdict_write ==
    \E t \in Running :
        /\ t.pc = "set_violations"
        /\ LET count == new_count(t.vprior)
           IN /\ violations' = set_violations(violations, t.scope, t.user, count)
              /\ Move(t, [t EXCEPT !.pc = FirstEffect, !.new_count = count,
                                   !.should_ban = should_ban(count, t.confidence),
                                   !.writes = @ + 1])
        /\ UNCHANGED <<platform, procs, calls, editor, text_channels, started, detections>>

\* on_message / handle_text resumed by api_text's answer.
api_text_result ==
    \E t \in Running :
        /\ Scheduled(t)
        /\ t.kind = "passive"
        /\ t.pc = "api_text"
        /\ \E body \in Bodies : \E is_member \in Members(body, "text") :
             LET result == api_text(body)
                 t2 == Observe(t, body, "text")
             IN /\ detections' = Detected(t2, is_member)
                /\ IF verdict_is_harmful(result)
                   THEN apply_verdict(t, t2, result, is_member)
                   ELSE Move(t, NextAttachment(t2))
        /\ UNCHANGED <<platform, procs, calls, editor, violations, text_channels, started>>

\* on_message resumed by attachment.read(): a failed read, an unknown type
\* and a video over 20 MB go on to the next attachment.
attachment_read ==
    \E t \in Running :
        /\ Scheduled(t)
        /\ t.pc = "attachment_read"
        /\ \E ok \in BOOLEAN, kind \in {"image", "audio", "video", "other"},
              too_large \in BOOLEAN :
             Move(t, IF ~ok \/ kind = "other" \/ (kind = "video" /\ too_large)
                     THEN NextAttachment([t EXCEPT !.att = @ - 1])
                     ELSE [t EXCEPT !.pc = "api_media"])
        /\ UNCHANGED <<platform, procs, calls, editor, violations, text_channels, started, detections>>

\* download_file (Telegram) returned or raised; a failed download ends the
\* handler.
download_file ==
    \E t \in Running :
        /\ Scheduled(t)
        /\ t.pc = "download"
        /\ \E ok \in BOOLEAN :
             Move(t, IF ok THEN [t EXCEPT !.pc = "api_media"] ELSE Idle)
        /\ UNCHANGED <<platform, procs, calls, editor, violations, text_channels, started, detections>>

\* The handler resumed by api_image / api_audio / api_video's answer: the
\* first harmful attachment ends the loop.
api_media_result ==
    \E t \in Running :
        /\ Scheduled(t)
        /\ t.pc = "api_media"
        /\ \E body \in Bodies : \E is_member \in Members(body, "media") :
             LET result == api_media(body)
                 t2 == Observe(t, body, "media")
             IN /\ detections' = Detected(t2, is_member)
                /\ IF verdict_is_harmful(result)
                   THEN apply_verdict(t, t2, result, is_member)
                   ELSE Move(t, NextAttachment([t2 EXCEPT !.att =
                                                  IF @ > 0 THEN @ - 1 ELSE 0]))
        /\ UNCHANGED <<platform, procs, calls, editor, violations, text_channels, started>>

\* ------------------------------------------------- enforcement (Discord)
\* The handler has made a platform call.  From here on new_count and
\* confidence are only rendered into message texts, which are not modelled:
\* the locals are dropped.
Did(t, effect) ==
    [t EXCEPT !.attempted = @ \cup {effect}, !.vprior = 0, !.new_count = 0,
              !.confidence = 0]

MuteBySettings(t) ==
    LET st == get_settings(settings, DEFAULT_SETTINGS, t.scope)
    IN IF t.should_ban THEN [t EXCEPT !.pc = "ban"]
       ELSE IF st.mute_threshold_violations <= BAN_VIOLATION_THRESHOLD
            THEN [t EXCEPT !.pc = "mute"]
            ELSE Idle

LoopGoesOn(t) ==
    IF t.should_ban THEN [t EXCEPT !.pc = "ban"]
    ELSE [t EXCEPT !.pc = "attachment_read", !.att = MaxAttachments]

\* After the log step: the ban when should_ban holds, else the end.
AfterLog(t) == IF t.should_ban THEN [t EXCEPT !.pc = "ban"] ELSE Idle

\* The delete's own try / except: whether message.delete() returned or
\* raised (ok), apply_verdict goes on to the warning.
StopWhenDeleteFails(t, ok) ==
    IF ok THEN [Did(t, "delete") EXCEPT !.pc = "warn"] ELSE Idle

BanBeforeWarning(t, ok) ==
    [Did(t, "delete") EXCEPT !.pc = IF t.should_ban THEN "ban" ELSE "warn"]

AfterDelete(t, ok) == [Did(t, "delete") EXCEPT !.pc = "warn"]

\* 1. message.delete() returned or raised; the warning is sent next.
message_delete ==
    \E t \in Running :
        /\ platform = "discord"
        /\ Scheduled(t)
        /\ t.pc = "delete"
        /\ \E ok \in BOOLEAN : Move(t, AfterDelete(t, ok))
        /\ UNCHANGED <<platform, procs, calls, editor, violations, text_channels, started, detections>>

\* 2. message.channel.send() returned or raised; get_log_channel then
\* finds the log channel or starts to create it.
channel_send ==
    \E t \in Running :
        /\ platform = "discord"
        /\ Scheduled(t)
        /\ t.pc = "warn"
        /\ \E ok \in BOOLEAN :
             Move(t, [Did(t, "warn") EXCEPT !.pc =
                        IF text_channels[t.scope] > 0 THEN "log_send"
                        ELSE "create_channel"])
        /\ UNCHANGED <<platform, procs, calls, editor, violations, text_channels, started, detections>>

\* get_log_channel: guild.create_text_channel() returned the new channel,
\* or raised (no log post then).
create_text_channel ==
    \E t \in Running :
        /\ platform = "discord"
        /\ Scheduled(t)
        /\ t.pc = "create_channel"
        /\ \E ok \in BOOLEAN :
             IF ok
             THEN /\ text_channels' = [text_channels EXCEPT ![t.scope] = @ + 1]
                  /\ Move(t, [t EXCEPT !.pc = "log_send"])
             ELSE /\ Move(t, AfterLog(t))
                  /\ UNCHANGED text_channels
        /\ UNCHANGED <<platform, procs, calls, editor, violations, started, detections>>

\* 3. log_ch.send() returned or raised.
log_ch_send ==
    \E t \in Running :
        /\ platform = "discord"
        /\ Scheduled(t)
        /\ t.pc = "log_send"
        /\ \E ok \in BOOLEAN : Move(t, AfterLog(Did(t, "log")))
        /\ UNCHANGED <<platform, procs, calls, editor, violations, text_channels, started, detections>>

\* 4. guild.ban() returned or raised.
guild_ban ==
    \E t \in Running :
        /\ platform = "discord"
        /\ Scheduled(t)
        /\ t.pc = "ban"
        /\ \E ok \in BOOLEAN : Move(t, Idle)
        /\ UNCHANGED <<platform, procs, calls, editor, violations, text_channels, started, detections>>

\* ------------------------------------------------ enforcement (Telegram)
\* message.reply_text() returned or raised; when it raised apply_verdict
\* returns, else the delete and the ban follow when should_ban holds.
reply_text ==
    \E t \in Running :
        /\ platform = "telegram"
        /\ Scheduled(t)
        /\ t.pc = "reply"
        /\ \E ok \in BOOLEAN :
             Move(t, IF ok /\ t.should_ban
                     THEN [Did(t, "warn") EXCEPT !.pc = "delete"]
                     ELSE Idle)
        /\ UNCHANGED <<platform, procs, calls, editor, violations, text_channels, started, detections>>

\* message.delete() returned or raised (only reached when should_ban).
message_delete_tg ==
    \E t \in Running :
        /\ platform = "telegram"
        /\ Scheduled(t)
        /\ t.pc = "delete"
        /\ \E ok \in BOOLEAN : Move(t, [Did(t, "delete") EXCEPT !.pc = "ban"])
        /\ UNCHANGED <<platform, procs, calls, editor, violations, text_channels, started, detections>>

\* context.bot.ban_chat_member() returned or raised.
ban_chat_member ==
    \E t \in Running :
        /\ platform = "telegram"
        /\ Scheduled(t)
        /\ t.pc = "ban"
        /\ \E ok \in BOOLEAN : Move(t, Idle)
        /\ UNCHANGED <<platform, procs, calls, editor, violations, text_channels, started, detections>>

\* ------------------------------------------------------------- commands
\* /check of either bot, up to the await of api_text (Telegram shows only
\* the usage when no text is given).
check ==
    /\ started' = started + 1
    /\ \E p \in procs, g \in Scopes \cup {NoGuild}, text \in BOOLEAN :
         /\ CanStart(p)
         /\ Launch(IF platform = "telegram" /\ ~text THEN Idle
                   ELSE [Idle EXCEPT !.proc = p, !.kind = "check",
                                     !.scope = g, !.pc = "check_api"])
    /\ UNCHANGED <<platform, procs, calls, editor, violations, text_channels, detections>>

\* Telegram reads result["is_bad"]: a verdict without the key raises
\* KeyError and the handler ends with no reply.  Discord reads
\* result.get("is_bad", False).
CheckRaises(result) ==
    platform = "telegram" /\ result # None /\ "is_bad" \notin DOMAIN result

CheckEnforces(t, t2, result) ==
    IF verdict_is_harmful(result) /\ t.scope # NoGuild
    THEN apply_verdict(t, t2, result, TRUE)
    ELSE Move(t, Idle)

\* /check after api_text: the error notice or the verdict is made ready
\* for the caller, and nothing else is done.
check_reply(t, t2, result) ==
    Move(t, IF CheckRaises(result) THEN Idle
            ELSE [t2 EXCEPT !.pc = "check_send"])

\* /check resumed by api_text's answer.
check_result ==
    \E t \in Running :
        /\ Scheduled(t)
        /\ t.pc = "check_api"
        /\ \E body \in Bodies :
             check_reply(t, Observe(t, body, "text"), api_text(body))
        /\ UNCHANGED <<platform, procs, calls, editor, violations, text_channels, started, detections>>

\* followup.send / reply_text of /check returned or raised.
check_send ==
    \E t \in Running :
        /\ Scheduled(t)
        /\ t.pc = "check_send"
        /\ \E ok \in BOOLEAN : Move(t, Idle)
        /\ UNCHANGED <<platform, procs, calls, editor, violations, text_channels, started, detections>>

\* /violations (Discord, administrators): the status line shown for a
\* stored count.  The command reads the count and writes nothing.
slash_violations(count) ==
    IF count = BAN_VIOLATION_THRESHOLD - 1 THEN "One more triggers ban"
    ELSE IF count >= BAN_VIOLATION_THRESHOLD
         THEN "Will be banned on next violation"
         ELSE "Clean"

\* /reset (Discord, administrators): set_violations(guild, user, 0).
slash_reset ==
    /\ platform = "discord"
    /\ started < MaxEvents
    /\ started' = started + 1
    /\ \E p \in procs : Free(p)
    /\ \E g \in Scopes, u \in Users :
         /\ violations' = set_violations(violations, g, u, 0)
         /\ detections' = [detections EXCEPT ![<<g, u>>] = 0]
    /\ UNCHANGED <<platform, procs, calls, editor, text_channels, tasks>>

Next ==
    \/ on_message
    \/ handle_text
    \/ handle_media
    \/ check
    \/ slash_reset
    \/ api_text_result
    \/ attachment_read
    \/ download_file
    \/ api_media_result
    \/ apply_verdict_write
    \/ message_delete
    \/ channel_send
    \/ create_text_channel
    \/ log_ch_send
    \/ guild_ban
    \/ reply_text
    \/ message_delete_tg
    \/ ban_chat_member
    \/ check_result
    \/ check_send

Spec == Init /\ [][Next]_vars

\* Two bot processes on one database file (two event loops): a handler of
\* one process runs between any two store calls of the other.
InitProcs == InitCommon /\ InitEditor /\ procs = {1, 2}

SpecProcs == InitProcs /\ [][Next]_vars

\* One bot process whose scope has the default settings (no row) or the
\* tuned ones; storing them was the one event delivered so far.
InitTuned ==
    /\ platform \in {"discord", "telegram"}
    /\ procs = {1}
    /\ settings \in {[k \in {} |-> DefaultSettings(platform)],
                      [g \in Scopes |-> TunedSettings(platform)]}
    /\ DEFAULT_SETTINGS = DefaultSettings(platform)
    /\ views = {}
    /\ edit = NoEdit
    /\ violations = [k \in {} |-> 0]
    /\ text_channels = [g \in Scopes |-> 0]
    /\ tasks = EmptyBag
    /\ calls = << >>
    /\ started = 1
    /\ detections = [k \in Scopes \X Users |-> 0]

SpecTuned == InitTuned /\ [][Next]_vars

\* ---------------------------------------------------------------------
\* The settings editor: /settings and its panels.

MaxEdits == 4

\* A stored blob of an earlier version of the bot: it lacks most keys of
\* today's defaults and has one key they do not have.
LegacySettings ==
    [min_confidence_for_action |-> 0, auto_warn |-> FALSE, legacy_mode |-> TRUE]

\* A chat or guild whose settings nobody has ever saved.
OtherScope == "s2"

\* What the platform reports about the acting user; "raises" is
\* get_chat_member failing.
Statuses == {"creator", "administrator", "member", "raises"}

Admins == {"creator", "administrator"}

AnyMember(status) == status # "raises"

\* member.status in ("administrator", "creator"); on Discord the
\* administrator permission the settings command is registered with.
is_administrator(status) == status \in {"administrator", "creator"}

Range(seq) == {seq[i] : i \in 1..Len(seq)}

\* cats.remove(c): the list without the first occurrence of c.
Remove(cats, c) ==
    LET i == CHOOSE i \in 1..Len(cats) :
                 cats[i] = c /\ \A j \in 1..(i - 1) : cats[j] # c
    IN SubSeq(cats, 1, i - 1) \o SubSeq(cats, i + 1, Len(cats))

AlwaysAppend(cats, c) == Append(cats, c)

\* cats.remove(c) if c in cats else cats.append(c)
toggle_list(cats, c) ==
    IF c \in Range(cats) THEN Remove(cats, c) ELSE Append(cats, c)

Unclamped(lo, hi, val) == val

\* max(lo, min(hi, val))
clamp(lo, hi, val) ==
    IF val < lo THEN lo ELSE IF val > hi THEN hi ELSE val

\* A panel of the editor: computed by a handler (shown = FALSE) and then
\* delivered to the chat (shown = TRUE).  admin remembers whether the user
\* it was opened for is an administrator of the scope.
Panel(panel, g, key, admin, shown) ==
    [panel |-> panel, scope |-> g, key |-> key, admin |-> admin, shown |-> shown]

\* The record of the latest editor event.
Event(kind, g, field, admin) ==
    [n |-> edit.n + 1, kind |-> kind, scope |-> g, field |-> field,
     admin |-> admin, tag |-> "none", reps |-> 0, base |-> {},
     w |-> << >>, prior |-> << >>]

\* The record of an edit that flips one tag of a category list whose
\* membership was before: the second of two flips of the same tag in a row
\* keeps the membership the first one found.
ToggleEvent(g, field, admin, tag, before) ==
    IF /\ edit.kind = "edit" /\ edit.scope = g /\ edit.field = field
       /\ edit.tag = tag /\ edit.reps = 1
    THEN [Event("edit", g, field, admin) EXCEPT
              !.tag = tag, !.reps = 2, !.base = edit.base]
    ELSE [Event("edit", g, field, admin) EXCEPT
              !.tag = tag, !.reps = 1, !.base = before]

Button(action, param, cat) == [action |-> action, param |-> param, cat |-> cat]

\* The keyboard of settings_menu.
MenuButtons ==
    {Button("toggle", p, "none") : p \in {"auto_warn", "auto_mute", "auto_block"}}
    \cup {Button(a, p, "none") : a \in {"conf", "mute", "muteth", "banth"},
                                 p \in {"+", "-"}}
    \cup {Button("cats", p, "none") : p \in {"mute", "block"}}
    \cup {Button("close", "", "none"), Button("noop", "", "none")}

\* The keyboard of category_menu.
CategoryButtons(cat_type) ==
    {Button("cattoggle", cat_type, c) : c \in Range(ALL_CATEGORIES)}
    \cup {Button("back", "", "none")}

Buttons(v) ==
    IF v.panel = "menu" THEN MenuButtons
    ELSE IF v.panel = "category" THEN CategoryButtons(v.key)
    ELSE {}

Key(cat_type) ==
    IF cat_type = "mute" THEN "instant_mute_categories"
    ELSE "instant_block_categories"

Step(param, by) == IF param = "+" THEN by ELSE 0 - by

\* The field a button of the Telegram editor addresses.
Field(b) ==
    CASE b.action = "toggle" -> b.param
      [] b.action = "conf" -> "min_confidence_for_action"
      [] b.action = "mute" -> "mute_minutes"
      [] b.action = "muteth" -> "mute_threshold_violations"
      [] b.action = "banth" -> "block_threshold_violations"
      [] b.action = "cattoggle" -> Key(b.param)
      [] OTHER -> "none"

FromSnapshot(s, b) ==
    IF b.action = "toggle"
    THEN [DefaultSettings(platform) EXCEPT ![b.param] = ~s[b.param]]
    ELSE s

\* The settings settings_callback saves for a button, from the settings s
\* it has read.  Confidences are multiples of 0.05 with at most two
\* decimals, so round(val, 2) is exact in hundredths.
stg(s, b) ==
    CASE b.action = "toggle" -> [s EXCEPT ![b.param] = ~@]
      [] b.action = "conf" ->
            [s EXCEPT !.min_confidence_for_action =
                          clamp(0, 100, @ + Step(b.param, 5))]
      [] b.action = "mute" ->
            [s EXCEPT !.mute_minutes = clamp(1, 10080, @ + Step(b.param, 15))]
      [] b.action = "muteth" ->
            [s EXCEPT !.mute_threshold_violations =
                          clamp(1, 100, @ + Step(b.param, 1))]
      [] b.action = "banth" ->
            [s EXCEPT !.block_threshold_violations =
                          clamp(1, 100, @ + Step(b.param, 1))]
      [] b.action = "cattoggle" ->
            [s EXCEPT ![Key(b.param)] = toggle_list(@, b.cat)]
      [] OTHER -> s

\* s[key] of a get_settings result is the list object of DEFAULT_SETTINGS
\* itself when the scope has no row or its row lacks the key.
Aliased(g, key) == g \notin DOMAIN settings \/ key \notin DOMAIN settings[g]

\* /settings on Telegram: group chats only, administrators only; the menu
\* is then sent.
cmd_settings ==
    /\ platform = "telegram"
    /\ edit.n < MaxEdits
    /\ \E g \in Scopes, is_group \in BOOLEAN, status \in Statuses :
          IF is_group /\ is_administrator(status)
          THEN /\ views' = views \cup {Panel("menu", g, "none", status \in Admins, FALSE)}
               /\ edit' = Event("open", g, "none", status \in Admins)
          ELSE /\ views' = views
               /\ edit' = Event("refused", g, "none", status \in Admins)
    /\ UNCHANGED <<platform, procs, calls, settings, DEFAULT_SETTINGS, moderation>>

\* settings_callback: a button of a delivered keyboard is pressed.  "noop"
\* returns at once; any other button is refused unless the presser is an
\* administrator of the chat; close and back save nothing; every other
\* button saves the settings it computed before the keyboard is redrawn.
settings_callback ==
    /\ platform = "telegram"
    /\ edit.n < MaxEdits
    /\ \E v \in views, status \in Statuses :
        /\ v.shown
        /\ \E b \in Buttons(v) :
            LET g == v.scope
                s == get_settings(settings, DEFAULT_SETTINGS, g)
                new == stg(s, b)
                admin == status \in Admins
            IN
            IF b.action = "noop"
            THEN /\ edit' = Event("noop", g, "none", admin)
                 /\ UNCHANGED <<settings, DEFAULT_SETTINGS, views>>
            ELSE IF ~is_administrator(status)
            THEN /\ edit' = Event("refused", g, "none", admin)
                 /\ UNCHANGED <<settings, DEFAULT_SETTINGS, views>>
            ELSE IF b.action = "close"
            THEN /\ views' = views \ {v}
                 /\ edit' = Event("close", g, "none", admin)
                 /\ UNCHANGED <<settings, DEFAULT_SETTINGS>>
            ELSE IF b.action = "back"
            THEN /\ views' = views \cup {Panel("menu", g, "none", admin, FALSE)}
                 /\ edit' = Event("back", g, "none", admin)
                 /\ UNCHANGED <<settings, DEFAULT_SETTINGS>>
            ELSE /\ settings' = save_settings(settings, g, new)
                 /\ DEFAULT_SETTINGS' =
                        IF b.action = "cattoggle" /\ Aliased(g, Key(b.param))
                        THEN [DEFAULT_SETTINGS EXCEPT
                                  ![Key(b.param)] = new[Key(b.param)]]
                        ELSE DEFAULT_SETTINGS
                 /\ views' = views \cup
                        {IF b.action \in {"cats", "cattoggle"}
                         THEN Panel("category", g, b.param, admin, FALSE)
                         ELSE Panel("menu", g, "none", admin, FALSE)}
                 /\ edit' =
                        IF b.action = "cattoggle"
                        THEN ToggleEvent(g, Key(b.param), admin, b.cat,
                                         Range(s[Key(b.param)]))
                        ELSE IF b.action = "cats"
                        THEN Event("cats", g, "none", admin)
                        ELSE Event("edit", g, Field(b), admin)
    /\ UNCHANGED <<platform, procs, calls, moderation>>

\* /settings on Discord: the command is registered with
\* default_permissions(administrator=True), and the platform lets only a
\* user with that permission invoke it; SettingsView is sent to that user
\* alone (ephemeral), so every later press on it is theirs.
slash_settings ==
    /\ platform = "discord"
    /\ edit.n < MaxEdits
    /\ \E g \in Scopes, status \in Statuses :
          IF is_administrator(status)
          THEN /\ views' = views \cup
                     {Panel("SettingsView", g, "none", status \in Admins, FALSE)}
               /\ edit' = Event("open", g, "none", status \in Admins)
          ELSE /\ views' = views
               /\ edit' = Event("refused", g, "none", status \in Admins)
    /\ UNCHANGED <<platform, procs, calls, settings, DEFAULT_SETTINGS, moderation>>

\* A callback of SettingsView or of one of its selects: the settings of
\* the view's guild are read, the one field is set, the whole is saved,
\* and the message is then edited to show the new settings.
Set(v, field, value) ==
    LET s == get_settings(settings, DEFAULT_SETTINGS, v.scope)
    IN /\ settings' = save_settings(settings, v.scope, [s EXCEPT ![field] = value])
       /\ views' = views \cup {[v EXCEPT !.shown = FALSE]}
       /\ edit' = Event("edit", v.scope, field, v.admin)
       /\ UNCHANGED <<platform, procs, calls, DEFAULT_SETTINGS, moderation>>

Opened(panel) == {v \in views : v.shown /\ v.panel = panel}

toggle_warn ==
    /\ platform = "discord"
    /\ edit.n < MaxEdits
    /\ \E v \in Opened("SettingsView") :
          Set(v, "auto_warn",
              ~get_settings(settings, DEFAULT_SETTINGS, v.scope).auto_warn)

toggle_ban ==
    /\ platform = "discord"
    /\ edit.n < MaxEdits
    /\ \E v \in Opened("SettingsView") :
          Set(v, "auto_block",
              ~get_settings(settings, DEFAULT_SETTINGS, v.scope).auto_block)

\* The two category buttons answer with a CategoryToggleView for their key.
CategoryToggleView(v, key) ==
    /\ views' = views \cup
           {Panel("CategoryToggleView", v.scope, key, v.admin, FALSE)}
    /\ edit' = Event("open", v.scope, "none", v.admin)
    /\ UNCHANGED <<platform, procs, calls, settings, DEFAULT_SETTINGS, moderation>>

instant_mute_cats ==
    /\ platform = "discord"
    /\ edit.n < MaxEdits
    /\ \E v \in Opened("SettingsView") :
          CategoryToggleView(v, "instant_mute_categories")

instant_ban_cats ==
    /\ platform = "discord"
    /\ edit.n < MaxEdits
    /\ \E v \in Opened("SettingsView") :
          CategoryToggleView(v, "instant_block_categories")

\* The options of ConfidenceSelect, in hundredths.
ConfidenceOptions == {40, 50, 55, 60, 65, 70, 75, 80, 85, 90}

\* range(1, 11), the options of MuteThreshSelect and BanThreshSelect.
ThreshOptions == 1..10

ConfidenceSelect ==
    /\ platform = "discord"
    /\ edit.n < MaxEdits
    /\ \E v \in Opened("SettingsView"), value \in ConfidenceOptions :
          Set(v, "min_confidence_for_action", value)

MuteThreshSelect ==
    /\ platform = "discord"
    /\ edit.n < MaxEdits
    /\ \E v \in Opened("SettingsView"), value \in ThreshOptions :
          Set(v, "mute_threshold_violations", value)

BanThreshSelect ==
    /\ platform = "discord"
    /\ edit.n < MaxEdits
    /\ \E v \in Opened("SettingsView"), value \in ThreshOptions :
          Set(v, "block_threshold_violations", value)

SymDiff(A, B) == (A \ B) \cup (B \ A)

\* The options of CategorySelect that are in S, in the order of the menu.
Select(S) == SelectSeq(ALL_CATEGORIES, LAMBDA c : c \in S)

\* The selections submitted to CategorySelect: the stored membership with
\* one tag flipped, nothing, or everything.
Selections(current) ==
    {Select(SymDiff(Range(current), {c})) : c \in Range(ALL_CATEGORIES)}
    \cup {<< >>, ALL_CATEGORIES}

\* CategorySelect.callback: the list under the view's key becomes the
\* submitted selection, and the answer is sent after the save.  A
\* selection that differs from the stored membership in one tag is a flip
\* of that tag.
CategorySelect ==
    /\ platform = "discord"
    /\ edit.n < MaxEdits
    /\ \E v \in Opened("CategoryToggleView") :
          LET s == get_settings(settings, DEFAULT_SETTINGS, v.scope)
              before == Range(s[v.key])
          IN \E values \in Selections(s[v.key]) :
                LET flipped == SymDiff(before, Range(values))
                IN /\ settings' = save_settings(settings, v.scope,
                                      [s EXCEPT ![v.key] = values])
                   /\ views' = views \cup {[v EXCEPT !.shown = FALSE]}
                   /\ edit' =
                        IF Cardinality(flipped) = 1
                        THEN ToggleEvent(v.scope, v.key, v.admin,
                                         CHOOSE c \in flipped : TRUE, before)
                        ELSE Event("edit", v.scope, v.key, v.admin)
    /\ UNCHANGED <<platform, procs, calls, DEFAULT_SETTINGS, moderation>>

\* The answer of an editor handler reaches the chat: reply_text and
\* edit_text on Telegram, interaction.response on Discord.
respond ==
    /\ \E v \in views :
          /\ ~v.shown
          /\ views' = (views \ {v}) \cup {[v EXCEPT !.shown = TRUE]}
    /\ UNCHANGED <<platform, procs, calls, settings, DEFAULT_SETTINGS, edit, moderation>>

\* A view of the Discord editor stops listening when its timeout is over.
on_timeout ==
    /\ platform = "discord"
    /\ \E v \in views :
          /\ v.shown
          /\ views' = views \ {v}
    /\ UNCHANGED <<platform, procs, calls, settings, DEFAULT_SETTINGS, edit, moderation>>

NextSettings ==
    \/ cmd_settings
    \/ settings_callback
    \/ slash_settings
    \/ toggle_warn
    \/ toggle_ban
    \/ instant_mute_cats
    \/ instant_ban_cats
    \/ ConfidenceSelect
    \/ MuteThreshSelect
    \/ BanThreshSelect
    \/ CategorySelect
    \/ respond
    \/ on_timeout

\* The editor alone, no message being moderated: the scope has no row, or
\* the tuned settings, or a blob of an earlier version.
InitSettings ==
    /\ platform \in {"discord", "telegram"}
    /\ procs = {1}
    /\ settings \in {[k \in {} |-> DefaultSettings(platform)],
                      [g \in Scopes |-> TunedSettings(platform)],
                      [g \in Scopes |-> LegacySettings]}
    /\ DEFAULT_SETTINGS = DefaultSettings(platform)
    /\ views = {}
    /\ edit = NoEdit
    /\ violations = [k \in {} |-> 0]
    /\ text_channels = [g \in Scopes |-> 0]
    /\ tasks = EmptyBag
    /\ calls = << >>
    /\ started = 0
    /\ detections = [k \in Scopes \X Users |-> 0]

SpecSettings == InitSettings /\ [][NextSettings]_vars

\* ---------------------------------------------------------------------
\* The settings store on its own: save_settings called with any blob.

Restrict(blob, keys) == [k \in keys |-> blob[k]]

\* The blobs written: the defaults, the tuned settings, and what they have
\* under some of three keys.
Writes(p) ==
    {DefaultSettings(p), TunedSettings(p)}
    \cup {Restrict(b, keys) :
              b \in {DefaultSettings(p), TunedSettings(p)},
              keys \in SUBSET {"auto_warn", "min_confidence_for_action",
                               "instant_block_categories"}}

\* save_settings(scope, w); edit keeps w and the blob the scope had.
write_settings ==
    /\ edit.n < MaxEdits
    /\ \E g \in Scopes, w \in Writes(platform) :
          /\ settings' = save_settings(settings, g, w)
          /\ edit' = [Event("save", g, "none", TRUE) EXCEPT
                         !.w = w,
                         !.prior = IF g \in DOMAIN settings
                                   THEN settings[g] ELSE << >>]
    /\ UNCHANGED <<platform, procs, calls, DEFAULT_SETTINGS, views, moderation>>

NextStore == write_settings

SpecStore == InitSettings /\ [][NextStore]_vars

\* ---------------------------------------------------------------- properties
\* The stored count of (s, u), and whether a handler has read it in
\* apply_verdict and not yet written it back.
Stored(s, u) == get_violations(violations, s, u)

PendingWrite(s, u) ==
    \E t \in Running : t.pc = "set_violations" /\ t.scope = s /\ t.user = u

\* Handler t takes this step; handler t ends with this step.
Steps(t) == CopiesIn(t, tasks') < CopiesIn(t, tasks)

Returns(t) == Steps(t) /\ BagCardinality(tasks') < BagCardinality(tasks)

\* Handler t of a passive event has entered apply_verdict.
Enforcing(t) ==
    \/ t.pc \in {"set_violations", "delete", "warn", "reply", "create_channel",
                 "log_send", "ban"}
    \/ t.writes > 0
    \/ t.attempted # {}

\* C1: the stored count of every (scope, user) equals the number of harmful
\* passive events of that user since the last reset, the event being applied
\* right now counted once its write is done; an event that is not harmful
\* adds no detection and so leaves the count as it is.
C1_CountEqualsHarmfulEvents ==
    \A s \in Scopes, u \in Users :
        Stored(s, u) + (IF PendingWrite(s, u) THEN 1 ELSE 0) = detections[<<s, u>>]

\* Two harmful events of one user were counted while a third event of the
\* same user was classified as not harmful.
C1_Witness ==
    \E s \in Scopes, u \in Users :
        /\ detections[<<s, u>>] = 2
        /\ Stored(s, u) = 2
        /\ \E t \in Running :
              t.scope = s /\ t.user = u /\ t.kind = "passive" /\ t.verdict = "safe"

\* C2: harmful events of one (scope, user) handled at the same time lose no
\* increment: every ledger write of a handler leaves the stored count one
\* above the count stored just before that write, so K writes add K.
C2_EveryWriteAddsOne ==
    [][\A t \in Running :
          (t.pc = "set_violations" /\ Steps(t))
              => Stored(t.scope, t.user)' = Stored(t.scope, t.user) + 1]_vars

\* Two handlers of the same (scope, user) are both past their write and both
\* still running: one wrote 1, the other 2, and 2 is stored.
C2_Witness ==
    \E t1 \in Running, t2 \in Running :
        /\ t1.scope = t2.scope /\ t1.user = t2.user
        /\ t1.writes = 1 /\ t2.writes = 1
        /\ t1.new_count = 1 /\ t2.new_count = 2
        /\ Stored(t1.scope, t1.user) = 2

\* C3: right after the write, new_count is the count read plus one, and the
\* decision is ban exactly when new_count >= 2 and confidence >= 0.80; a
\* handler is at a ban step, or at Telegram's delete, only with that decision.
C3_BanIffBothThresholds ==
    \A t \in Running :
        /\ (t.writes = 1 /\ t.pc = FirstEffect)
              => /\ t.new_count = t.vprior + 1
                 /\ t.should_ban <=> (t.new_count >= 2 /\ t.confidence >= 80)
        /\ (t.pc = "ban" \/ (platform = "telegram" /\ t.pc = "delete"))
              => t.should_ban

\* A second offence at confidence exactly 0.80 is a ban.
C3_Witness ==
    \E t \in Running :
        /\ t.writes = 1 /\ t.pc = FirstEffect
        /\ t.vprior = 1 /\ t.confidence = 80 /\ t.should_ban

\* C4: a detection applied over a stored count of 0 is a warn and never a
\* ban, whatever the confidence.
C4_FirstOffenceNeverBans ==
    \A t \in Running :
        (t.writes = 1 /\ t.pc = FirstEffect /\ t.vprior = 0) => ~t.should_ban

\* A first offence at confidence 1.0 was decided as a warn.
C4_Witness ==
    \E t \in Running :
        /\ t.writes = 1 /\ t.pc = FirstEffect
        /\ t.vprior = 0 /\ t.confidence = 100 /\ ~t.should_ban

\* C5: every handler that applied a harmful verdict has attempted to delete
\* the message by the time it returns, on Discord and on Telegram, whether
\* the decision was warn or ban.
C5_DeleteAttemptedBeforeReturn ==
    [][\A t \in Running :
          (t.writes = 1 /\ Returns(t)) => "delete" \in t.attempted]_vars

\* C6: a failed enforcement step does not stop the later ones: a handler
\* whose decision is ban returns only from its ban step.
C6_BanStillAttempted ==
    [][\A t \in Running :
          (t.should_ban /\ Returns(t)) => t.pc = "ban"]_vars

\* C7: a handler whose latest verdict is not harmful makes no ledger write
\* and attempts no delete, warn, log or ban.
C7_SafeVerdictNoSideEffect ==
    \A t \in Running : t.verdict = "safe" => ~Enforcing(t)

\* A Discord handler got a verdict that is not harmful and went on to the
\* next attachment, the count of its author still 0.
C7_Witness ==
    \E t \in Running :
        /\ t.verdict = "safe" /\ t.pc = "attachment_read"
        /\ Stored(t.scope, t.user) = 0 /\ detections[<<t.scope, t.user>>] = 0

\* C8: a handler whose classification call failed (no verdict) leaves the
\* count as it is and enforces nothing.
C8_FailedClassificationNoEffect ==
    \A t \in Running : t.verdict = "failed" => ~Enforcing(t)

\* A Discord handler's classification failed after one detection of its
\* author was counted; it went on to the next attachment and 1 is stored.
C8_Witness ==
    \E t \in Running :
        /\ t.verdict = "failed" /\ t.pc = "attachment_read"
        /\ Stored(t.scope, t.user) = 1 /\ detections[<<t.scope, t.user>>] = 1

\* C9: a manual check never writes the ledger and never attempts a delete,
\* warn, log or ban: it only waits for the verdict and shows it.
C9_CheckHasNoEffect ==
    \A t \in Running :
        t.kind = "check"
            => /\ t.pc \in {"check_api", "check_send"}
               /\ t.writes = 0
               /\ t.attempted = {}

\* A manual check in a guild or group got a harmful verdict and is about to
\* show it; nothing is being written.
C9_Witness ==
    \E t \in Running :
        /\ t.kind = "check" /\ t.pc = "check_send" /\ t.verdict = "harmful"
        /\ t.scope # NoGuild
        /\ \A s \in Scopes, u \in Users : ~PendingWrite(s, u)

\* C10: the increment is atomic at the storage layer: whatever the
\* interleaving of store statements, processes sharing the database
\* included, no increment is lost: once no write is pending the stored count
\* is not below the number of detections since the last reset.
C10_NoLostIncrement ==
    (\A t \in Running : t.pc # "set_violations")
        => \A s \in Scopes, u \in Users : Stored(s, u) >= detections[<<s, u>>]

\* C11: every stored count is an integer >= 0, and no step lowers the count
\* of a (scope, user) except a reset command, which is no handler's step and
\* leaves 0.
C11_CountNeverDecreases ==
    [][violations' # violations =>
          \A s \in Scopes, u \in Users :
              /\ Stored(s, u)' \in Nat
              /\ Stored(s, u)' < Stored(s, u)
                    => (Stored(s, u)' = 0 /\ tasks' = tasks)]_vars

\* The count of a user was reset to 0 while the handler that had counted
\* one of that user's messages was still enforcing.
C11_Witness ==
    \E t \in Running :
        /\ t.writes = 1 /\ t.pc = "warn"
        /\ <<t.scope, t.user>> \in DOMAIN violations
        /\ Stored(t.scope, t.user) = 0

\* C20: at most one log channel is created for a guild, also when several
\* harmful events of the guild resolve the log channel at the same time
\* while none exists.
C20_OneLogChannel ==
    \A g \in Scopes : text_channels[g] <= 1

\* C12: the decision does not depend on the settings of the scope: with the
\* defaults or with every field tuned, the count written is the count read
\* plus one, the decision is ban exactly for a repeat offence (count read
\* >= 1) at confidence >= 0.80, and the handler then makes the calls of its
\* platform in their fixed order, warning included.
C12_DecisionIgnoresSettings ==
    \A t \in Running :
        /\ (t.writes = 1 /\ t.pc = FirstEffect)
              => /\ t.new_count = t.vprior + 1
                 /\ t.should_ban = (t.vprior >= 1 /\ t.confidence >= 80)
        /\ t.pc \in {"warn", "create_channel", "log_send"}
              => "delete" \in t.attempted
        /\ t.pc \in {"create_channel", "log_send"} => "warn" \in t.attempted
        /\ (platform = "telegram" /\ t.pc = "delete") => "warn" \in t.attempted
        /\ t.pc = "ban" => (t.should_ban /\ {"delete", "warn"} \subseteq t.attempted)

\* The scope's stored settings have auto-ban and auto-warn off and a ban
\* threshold far above 2, and a second offence at confidence 0.80 was
\* decided as a ban.
C12_Witness ==
    \E t \in Running :
        LET st == get_settings(settings, DEFAULT_SETTINGS, t.scope)
        IN /\ t.scope \in DOMAIN settings
           /\ ~st.auto_block /\ ~st.auto_warn
           /\ st.block_threshold_violations >= 10
           /\ t.writes = 1 /\ t.pc = FirstEffect
           /\ t.vprior = 1 /\ t.confidence = 80 /\ t.should_ban

\* ---------------------------------------------------------------------
\* The bot on a database that already has rows: counts of both users in
\* another guild or chat, and a count of u2 here.  One event of the
\* MaxEvents is taken as delivered.
InitLedger ==
    /\ platform \in {"discord", "telegram"}
    /\ procs = {1}
    /\ InitEditor
    /\ violations = (<<OtherScope, "u1">> :> 1) @@ (<<OtherScope, "u2">> :> 3)
                        @@ (<<"s1", "u2">> :> 1)
    /\ text_channels = [g \in Scopes |-> 0]
    /\ tasks = EmptyBag
    /\ calls = << >>
    /\ started = 1
    /\ detections = [k \in Scopes \X Users |->
                        IF k = <<"s1", "u2">> THEN 1 ELSE 0]

SpecLedger == InitLedger /\ [][Next]_vars

\* ---------------------------------------------------------------------
\* The classification on its own: one HTTP answer after another is read
\* as the callers read it.  endpoint "text" is api_text, whose result the
\* passive text handler and the /check command judge; endpoint "media" is
\* api_image / api_audio / api_video, judged by the passive handlers only.
MaxCalls == 2

\* The title /check shows for a result of api_text.  Discord reads
\* result.get("is_bad", False), Telegram result["is_bad"].
check_status(result) ==
    IF result = None THEN "API error"
    ELSE IF CheckRaises(result) THEN "KeyError"
    ELSE IF Get(result, "is_bad", FALSE) THEN "HARMFUL" ELSE "SAFE"

classify ==
    /\ Len(calls) < MaxCalls
    /\ \E body \in Bodies, endpoint \in {"text", "media"} :
          LET result == IF endpoint = "text" THEN api_text(body)
                        ELSE api_media(body)
          IN calls' = Append(calls,
                 [body |-> body, endpoint |-> endpoint, result |-> result,
                  harmful |-> verdict_is_harmful(result),
                  status |-> IF endpoint = "text" THEN check_status(result)
                             ELSE "none"])
    /\ UNCHANGED <<platform, procs, editor, moderation>>

NextApi == classify

SpecApi == Init /\ [][NextApi]_vars

\* ---------------------------------------------------------------------
\* The bot whose awaited platform calls come back: a message.delete() that
\* is awaited returns or raises in the end, and a handler that has read the
\* count writes it in the same run of the event loop.
SpecFair ==
    /\ InitTuned
    /\ [][Next]_vars
    /\ WF_vars(apply_verdict_write)
    /\ WF_vars(message_delete)

\* ---------------------------------------------------------------------
\* The bot on a database that can fail.  get_violations and set_violations
\* of apply_verdict stand in no try / except: a sqlite3 error raised by
\* either leaves apply_verdict and the handler, and the library that called
\* the handler logs it.  Nothing was written: the write is one statement.
ErrorSwallowed(t) == [t EXCEPT !.pc = FirstEffect]

store_raises(t) == Idle

sqlite_error ==
    \E t \in Running :
        /\ t.pc = "set_violations"
        /\ Move(t, store_raises(t))
        /\ UNCHANGED <<platform, procs, calls, editor, violations, text_channels, started, detections>>

NextFaulty == Next \/ sqlite_error

SpecFaulty == InitLedger /\ [][NextFaulty]_vars

\* ---------------------------------------------------------------------
\* The Telegram bot started on a new database file (DB_PATH, created by
\* init_db when it is missing).  The keyboards an earlier run sent are still
\* in the chat and their buttons still carry their callback data: the menu
\* and both category keyboards of chat s1.
InitStale ==
    /\ platform = "telegram"
    /\ procs = {1}
    /\ settings = [k \in {} |-> DefaultSettings(platform)]
    /\ DEFAULT_SETTINGS = DefaultSettings(platform)
    /\ views = {Panel("menu", "s1", "none", TRUE, TRUE),
                Panel("category", "s1", "mute", TRUE, TRUE),
                Panel("category", "s1", "block", TRUE, TRUE)}
    /\ edit = NoEdit
    /\ violations = [k \in {} |-> 0]
    /\ text_channels = [g \in Scopes |-> 0]
    /\ tasks = EmptyBag
    /\ calls = << >>
    /\ started = 0
    /\ detections = [k \in Scopes \X Users |-> 0]

NextStale ==
    \/ cmd_settings
    \/ settings_callback
    \/ respond

SpecStale == InitStale /\ [][NextStale]_vars

\* ---------------------------------------------------------------------
\* apply_verdict's decision on its own: harmful verdicts that also carry
\* the API's advisory action are judged one after another, each against a
\* prior count.  The decision reads the verdict's confidence and nothing
\* else of it; the platform calls that follow are those of the platform.
Actions == {"none", "warn", "mute", "ban"}

ActionVerdicts == [is_bad : {TRUE}, confidence : Confidences, action : Actions]

ObeysAction(result, prior) ==
    LET count == new_count(prior)
        ban == \/ should_ban(count, Get(result, "confidence", 0))
               \/ Get(result, "action", "none") = "ban"
    IN [new_count |-> count, should_ban |-> ban,
        effects |-> IF platform = "discord"
                    THEN {"delete", "warn", "log"} \cup (IF ban THEN {"ban"} ELSE {})
                    ELSE {"warn"} \cup (IF ban THEN {"delete", "ban"} ELSE {})]

enforcement(result, prior) ==
    LET count == new_count(prior)
        ban == should_ban(count, Get(result, "confidence", 0))
    IN [new_count |-> count, should_ban |-> ban,
        effects |-> IF platform = "discord"
                    THEN {"delete", "warn", "log"} \cup (IF ban THEN {"ban"} ELSE {})
                    ELSE {"warn"} \cup (IF ban THEN {"delete", "ban"} ELSE {})]

judge ==
    /\ Len(calls) < MaxCalls
    /\ \E result \in ActionVerdicts, prior \in 0..BAN_VIOLATION_THRESHOLD :
          calls' = Append(calls, [result |-> result, prior |-> prior,
                                  outcome |-> enforcement(result, prior)])
    /\ UNCHANGED <<platform, procs, editor, moderation>>

NextVerdict == judge

SpecVerdict == Init /\ [][NextVerdict]_vars

\* What get_settings returns for scope g now.
Settings(g) == get_settings(settings, DEFAULT_SETTINGS, g)

\* C13: after save_settings(scope, w) the settings read for the scope are
\* the defaults overlaid with w, and a key that w omits but the scope's
\* earlier blob had still has the value of that earlier blob.
C13_SaveKeepsOmittedFields ==
    edit.kind = "save"
        => /\ Settings(edit.scope)
                 = Overlay(DefaultSettings(platform), edit.w)
           /\ \A k \in DOMAIN edit.prior \ DOMAIN edit.w :
                 /\ k \in DOMAIN Settings(edit.scope)
                 /\ Settings(edit.scope)[k] = edit.prior[k]

\* C14: whatever is stored for a scope (no row, a full blob, a blob that
\* lacks keys), the result of get_settings has every key of the defaults,
\* and a key the stored blob lacks has the value DEFAULT_SETTINGS was
\* written with.
C14_MissingKeysGetDefaults ==
    \A g \in Scopes \cup {OtherScope} :
        \A k \in DOMAIN DefaultSettings(platform) :
            /\ k \in DOMAIN Settings(g)
            /\ Aliased(g, k) => Settings(g)[k] = DefaultSettings(platform)[k]

\* The stored blob lacks auto_block and the category lists, a panel that
\* was drawn from get_settings is on screen, and the settings read have the
\* defaults there.
C14_Witness ==
    /\ "s1" \in DOMAIN settings
    /\ {"auto_block", "instant_mute_categories"} \cap DOMAIN settings["s1"] = {}
    /\ \E v \in views : v.shown /\ v.scope = "s1"
    /\ Settings("s1").auto_block
    /\ Len(Settings("s1").instant_mute_categories) = 4

\* C15: the keys of every get_settings result are exactly the keys of the
\* defaults, so a key of the stored blob that the defaults do not have is
\* dropped on load.
C15_UnknownKeysIgnored ==
    \A g \in Scopes \cup {OtherScope} :
        DOMAIN Settings(g) = DOMAIN DefaultSettings(platform)

\* C16: after the same tag has been flipped twice in a row in the same
\* category list of a scope, the list has the members it had before the
\* first flip.
C16_ToggleTwiceRestores ==
    (edit.kind = "edit" /\ edit.reps = 2)
        => Range(Settings(edit.scope)[edit.field]) = edit.base

\* A tag that was not in the instant-ban list has been switched on and off
\* again.
C16_Witness ==
    /\ edit.kind = "edit" /\ edit.reps = 2
    /\ edit.field = "instant_block_categories"
    /\ edit.tag \notin edit.base
    /\ edit.base # {}

\* C17: the thresholds of the settings of a scope stay in their ranges:
\* the confidence in [0, 1] on the 0.05 grid, the mute minutes in
\* [1, 10080], both violation thresholds in [1, 100].
C17_ThresholdsInRange ==
    \A g \in Scopes :
        /\ Settings(g).min_confidence_for_action \in 0..100
        /\ Settings(g).min_confidence_for_action % 5 = 0
        /\ "mute_minutes" \in DOMAIN Settings(g)
              => Settings(g).mute_minutes \in 1..10080
        /\ Settings(g).mute_threshold_violations \in 1..100
        /\ Settings(g).block_threshold_violations \in 1..100

\* The menu was opened and its first press was a mute-minutes button that
\* left the value at the upper end of the range.
C17_Witness ==
    /\ edit.n = 2 /\ edit.kind = "edit" /\ edit.field = "mute_minutes"
    /\ Settings(edit.scope).mute_minutes = 10080

\* C18: a step that changes the stored settings is an editor event whose
\* acting user is an administrator of the scope; an event of a user who
\* is not (or whose status could not be read) leaves the store as it was.
C18_OnlyAdminsEdit ==
    [][settings' # settings => (edit'.n = edit.n + 1 /\ edit'.admin)]_vars

\* A press on the category keyboard was refused after an administrator had
\* opened that keyboard, which saves.
C18_Witness ==
    /\ edit.kind = "refused" /\ ~edit.admin
    /\ edit.scope \in DOMAIN settings
    /\ \E v \in views : v.shown /\ v.panel = "category"

\* C19: in the step of an accepted edit the settings are saved, with the
\* answer of the editor still to come, and the settings read after the
\* step are those read before it except in the field the edit names.
C19_EditSavedFirstOneField ==
    [][(edit'.n = edit.n + 1 /\ edit'.kind \in {"edit", "cats"})
          => LET g == edit'.scope
                 before == Settings(g)
                 after == get_settings(settings', DEFAULT_SETTINGS', g)
             IN /\ g \in DOMAIN settings'
                /\ settings'[g] = after
                /\ \E v \in views' : v.scope = g /\ ~v.shown
                /\ DOMAIN after = DOMAIN before
                /\ \A k \in DOMAIN after \ {edit'.field} : after[k] = before[k]]_vars

\* Auto-ban has been switched off for a scope that had no row; the row is
\* there and the answer has not been sent yet.
C19_Witness ==
    /\ edit.kind = "edit" /\ edit.field = "auto_block" /\ edit.n = 2
    /\ edit.scope \in DOMAIN settings
    /\ ~settings[edit.scope].auto_block
    /\ settings[edit.scope].auto_warn
    /\ \E v \in views : v.scope = edit.scope /\ ~v.shown

\* The keys of the violations table a step can touch or spare.
Records == (Scopes \cup {OtherScope}) \X Users

\* C21: the ledger write of a handler for (scope S, user U) changes the
\* record (S, U) alone: every other record, of another user in S and of
\* any user in another scope, is there or not as before and holds the same
\* count.
C21_OnlyOwnRecordChanges ==
    [][\A t \in Running :
          (t.pc = "set_violations" /\ Steps(t))
              => \A k \in Records \ {<<t.scope, t.user>>} :
                    /\ (k \in DOMAIN violations') = (k \in DOMAIN violations)
                    /\ get_violations(violations', k[1], k[2])
                          = get_violations(violations, k[1], k[2])]_vars

\* The first detection of u1 in s1 is written; u1's count in the other
\* scope and u2's counts in both scopes are what they were.
C21_Witness ==
    /\ \E t \in Running :
          t.scope = "s1" /\ t.user = "u1" /\ t.writes = 1 /\ t.pc = FirstEffect
    /\ Stored("s1", "u1") = 1
    /\ Stored("s1", "u2") = 1
    /\ Stored(OtherScope, "u1") = 1
    /\ Stored(OtherScope, "u2") = 3

\* C22: api_text normalizes a body that is a mapping with a results
\* sequence to element 0 of the sequence and any other decoded body to
\* itself, so the envelope {"results": [V]} and the bare V come out as the
\* same verdict and are judged harmful or not alike.
C22_EnvelopeAndBareAgree ==
    \A i \in DOMAIN calls :
        LET c == calls[i]
        IN c.endpoint = "text" =>
            /\ ("results" \in DOMAIN c.body /\ c.body.results # << >>)
                  => c.result = c.body.results[1]
            /\ ("results" \notin DOMAIN c.body /\ "error" \notin DOMAIN c.body)
                  => c.result = c.body
            /\ \A j \in DOMAIN calls :
                  (calls[j].endpoint = "text"
                      /\ c.body = [results |-> <<calls[j].body>>])
                    => /\ c.result = calls[j].result
                       /\ c.harmful = calls[j].harmful

\* A harmful verdict came once in an envelope and once bare.
C22_Witness ==
    /\ Len(calls) = 2
    /\ calls[1].endpoint = "text" /\ calls[2].endpoint = "text"
    /\ calls[1].body = [results |-> <<calls[2].body>>]
    /\ calls[1].harmful /\ calls[2].harmful

\* C25: every place that judges a verdict, the passive handlers and the
\* /check command alike, takes it as harmful exactly when its is_bad is
\* true or its status is "bad".
C25_OneHarmfulnessRule ==
    \A i \in DOMAIN calls :
        LET c == calls[i]
            v == c.result
            bad == \/ ("is_bad" \in DOMAIN v /\ v.is_bad)
                   \/ ("status" \in DOMAIN v /\ v.status = "bad")
        IN v # None =>
            /\ c.harmful = bad
            /\ c.endpoint = "text"
                  => c.status = (IF bad THEN "HARMFUL" ELSE "SAFE")

C24_StoreFailureDropsEvent ==
    [][/\ \A t \in Running :
             (t.pc = "set_violations" /\ Steps(t) /\ violations' = violations)
                => /\ Returns(t)
                   /\ t.attempted = {}
                   /\ tasks' = tasks (-) SetToBag({t})
                   /\ text_channels' = text_channels
       /\ \A t \in BagToSet(tasks') :
             (t.attempted # {} \/ t.pc \in {"delete", "warn", "reply",
                                           "create_channel", "log_send", "ban"})
                => t.writes = 1]_vars

\* The store failed for a harmful event of u1, whose count is still absent;
\* the event of u2 that came with it or after it is counted and enforced.
C24_Witness ==
    /\ detections[<<"s1", "u1">>] = 1
    /\ Stored("s1", "u1") = 0
    /\ ~PendingWrite("s1", "u1")
    /\ \E t \in Running : t.user = "u2" /\ t.writes = 1 /\ t.pc = FirstEffect
    /\ Stored("s1", "u2") = 2

\* C26: the defaults are never changed in place and no edit leaks into
\* another scope: whatever was edited in chat s1, in whatever order,
\* DEFAULT_SETTINGS is as it was written and the other chat, which has no
\* row, reads the settings it read at the start.
C26_EditsStayInTheirScope ==
    /\ DEFAULT_SETTINGS = DefaultSettings(platform)
    /\ Settings(OtherScope) = DefaultSettings(platform)

\* C27: one invocation of apply_verdict writes the ledger exactly once.  The
\* table changes in a handler's step only when that handler stands between
\* its read and its write and has not written yet; what it then stores for
\* its own (scope, user) is the prior count it read plus one; and no handler
\* ever has more than one write behind it, the ban decision and the platform
\* calls that follow write nothing.
C27_OneWritePerDetection ==
    [][/\ \A t \in Running :
             (Steps(t) /\ violations' # violations)
                => /\ t.pc = "set_violations"
                   /\ t.writes = 0
                   /\ violations' = set_violations(violations, t.scope, t.user,
                                                   t.vprior + 1)
       /\ \A t \in Running :
             (Steps(t) /\ t.writes = 1) => violations' = violations
       /\ \A t \in BagToSet(tasks') :
             /\ t.writes <= 1
             /\ (t.attempted # {} \/ t.should_ban) => t.writes = 1]_vars

\* A handler has written u2's second violation, decided the ban and made
\* its first platform call; the count is 2, written once.
C27_Witness ==
    /\ \E t \in Running :
          /\ t.user = "u2" /\ t.writes = 1 /\ t.should_ban
          /\ t.attempted # {}
    /\ Stored("s1", "u2") = 2

\* C28: the ban is attempted exactly once in an event whose should_ban
\* holds and not at all in any other: a handler that has written its count
\* returns from the ban call, made once and not repeated whether it
\* returned or raised, exactly when it decided should_ban.
C28_BanOnceIffShouldBan ==
    [][\A t \in Running :
          /\ (Returns(t) /\ t.writes = 1) => (t.should_ban <=> t.pc = "ban")
          /\ (Steps(t) /\ t.pc = "ban") => Returns(t)
          /\ t.pc = "ban" => t.should_ban]_vars

C30_StatusForetellsBan ==
    \A t \in Running :
        (/\ platform = "discord"
         /\ t.writes = 1 /\ t.pc = FirstEffect
         /\ slash_violations(t.vprior) \in
                {"One more triggers ban", "Will be banned on next violation"})
            => t.should_ban

\* C31: the advisory action of a verdict is ignored: two verdicts that are
\* alike but for their action, judged against the same prior count, give
\* the same new count, the same ban decision and the same platform calls.
C31_ActionFieldIgnored ==
    \A i, j \in DOMAIN calls :
        (/\ calls[i].prior = calls[j].prior
         /\ [calls[i].result EXCEPT !.action = calls[j].result.action]
                = calls[j].result)
            => calls[i].outcome = calls[j].outcome

\* The same verdict (confidence 1.0, first violation) came with action
\* "ban" and with action "none"; neither is banned.
C31_Witness ==
    /\ Len(calls) = 2
    /\ calls[1].result = [is_bad |-> TRUE, confidence |-> 100, action |-> "ban"]
    /\ calls[2].result = [is_bad |-> TRUE, confidence |-> 100, action |-> "none"]
    /\ calls[1].prior = 0 /\ calls[2].prior = 0
    /\ ~calls[1].outcome.should_ban
    /\ "ban" \notin calls[1].outcome.effects

\* C32: a classification that is slow to answer blocks no other event:
\* while a handler waits for its verdict, a further message can be taken up
\* for classification (as long as handlers and events are left within the
\* bounds), and every other running handler can take its next step, the
\* ledger write and the platform calls among them.
C32_WaitingBlocksNobody ==
    \A t \in Running :
        (t.pc \in {"api_text", "api_media", "check_api"} /\ Free(t.proc))
            => /\ (BagCardinality(tasks) < MaxHandlers /\ started < MaxEvents)
                     => ENABLED (on_message \/ handle_text)
               /\ \A k \in Running : ENABLED (Next /\ Steps(k))

C34_OnlyModeratedContent ==
    /\ \A t \in Running :
          t.kind = "passive" => (t.scope \in Scopes /\ t.user \in Users)
    /\ \A t \in Running : Enforcing(t) => t.kind = "passive"
    /\ DOMAIN violations \subseteq Scopes \X Users

\* Three events were delivered and none of them started a handler or left
\* a record (among the ways there: three direct messages, bot messages or
\* private-chat messages).
C34_Witness ==
    /\ started = MaxEvents
    /\ tasks = EmptyBag
    /\ violations = [k \in {} |-> 0]

\* C35: /reset sets the count of the one (guild, user) it names to 0 and
\* nothing else: a command that changes the ledger without a handler
\* leaves every other record, the settings and the log channels as they
\* were, and resetting the same record again changes nothing.
C35_ResetTouchesOneRecord ==
    [][(tasks' = tasks /\ started' # started /\ violations' # violations)
          => \E k \in Scopes \X Users :
                /\ get_violations(violations', k[1], k[2]) = 0
                /\ \A r \in Records \ {k} :
                      /\ (r \in DOMAIN violations') = (r \in DOMAIN violations)
                      /\ get_violations(violations', r[1], r[2])
                            = get_violations(violations, r[1], r[2])
                /\ settings' = settings
                /\ DEFAULT_SETTINGS' = DEFAULT_SETTINGS
                /\ text_channels' = text_channels
                /\ set_violations(violations', k[1], k[2], 0) = violations']_vars

\* u2's count in s1 was reset, twice or with another event after it: it is
\* 0, u1 has no record, and the counts in the other guild are untouched.
C35_Witness ==
    /\ platform = "discord"
    /\ started = MaxEvents
    /\ tasks = EmptyBag
    /\ <<"s1", "u2">> \in DOMAIN violations
    /\ Stored("s1", "u2") = 0
    /\ <<"s1", "u1">> \notin DOMAIN violations
    /\ Stored(OtherScope, "u1") = 1
    /\ Stored(OtherScope, "u2") = 3

\* C36: edits of one scope that follow each other, from whatever keyboard
\* or view they come (one drawn before the other edit among them), lose
\* nothing: when an edit of one field follows an edit of another field of
\* the same scope, the stored value of the first field is what the first
\* edit left, and a switch that the second edit flips is flipped.
C36_NoLostUpdate ==
    [][(/\ edit'.n = edit.n + 1
        /\ edit.kind = "edit" /\ edit'.kind = "edit"
        /\ edit'.scope = edit.scope /\ edit'.field # edit.field)
          => LET g == edit.scope
             IN /\ g \in DOMAIN settings /\ g \in DOMAIN settings'
                /\ settings'[g][edit.field] = settings[g][edit.field]
                /\ edit'.field \in {"auto_warn", "auto_mute", "auto_block"}
                      => settings'[g][edit'.field] = ~Settings(g)[edit'.field]]_vars

\* A chat that had no row: auto-warn and then auto-ban were switched off
\* one after the other, and the redrawn menu is still to be delivered; both
\* are off in the stored settings.
C36_Witness ==
    /\ edit.kind = "edit" /\ edit.field = "auto_block" /\ edit.n = 3
    /\ edit.scope \in DOMAIN settings
    /\ ~settings[edit.scope].auto_block
    /\ ~settings[edit.scope].auto_warn
    /\ settings[edit.scope].min_confidence_for_action = 55
    /\ \E v \in views : v.scope = edit.scope /\ ~v.shown

\* C37: the ban decision of an event rests on the count read from the
\* ledger once its classification is over, not on the prior count that was
\* read before the call and sent along with it: the handler that a harmful
\* verdict resumes takes the count stored at that moment, whatever it read
\* before, and a handler that finds 1 stored at confidence >= 0.80 writes 2
\* and decides the ban.
C37_DecisionUsesFreshCount ==
    [][/\ \A t \in Running :
             (Steps(t) /\ t.pc \in {"api_text", "api_media"})
                => \A t2 \in BagToSet(tasks') :
                      (/\ t2.pc = "set_violations"
                       /\ CopiesIn(t2, tasks') > CopiesIn(t2, tasks))
                          => t2.vprior = Stored(t.scope, t.user)
       /\ \A t \in Running :
             (Steps(t) /\ t.pc = "set_violations"
                       /\ Stored(t.scope, t.user) = BAN_VIOLATION_THRESHOLD - 1
                       /\ t.confidence >= BAN_CONFIDENCE_THRESHOLD)
                => \E t2 \in BagToSet(tasks') :
                      /\ t2.pc = FirstEffect /\ t2.user = t.user
                      /\ t2.new_count = BAN_VIOLATION_THRESHOLD
                      /\ t2.should_ban]_vars

\* Discord: two harmful messages of u1, who had no record, are in flight
\* together; the one applied first wrote 1 and warns, the one applied
\* second found 1, wrote 2 and bans.
C37_Witness ==
    /\ platform = "discord"
    /\ detections[<<"s1", "u1">>] = 2
    /\ \E t1 \in Running, t2 \in Running :
          /\ t1.user = "u1" /\ t2.user = "u1"
          /\ t1.pc = FirstEffect /\ t2.pc = FirstEffect
          /\ t1.vprior = 0 /\ ~t1.should_ban
          /\ t2.vprior = 1 /\ t2.new_count = 2 /\ t2.should_ban

\* C38: within one harmful event the ledger write comes before every
\* platform call and the ban comes last: a handler that stands in a delete,
\* warning, log or ban call, or has made one, has its count written and the
\* record is in the table; a handler stands in the ban call only with the
\* warning behind it; and no handler goes on after its ban.
C38_WriteFirstBanLast ==
    \A t \in Running :
        /\ (t.attempted # {} \/ t.pc \in {"delete", "warn", "reply",
                                          "create_channel", "log_send", "ban"})
              => /\ t.writes = 1
                 /\ <<t.scope, t.user>> \in DOMAIN violations
        /\ t.pc = "ban" => "warn" \in t.attempted
        /\ "ban" \notin t.attempted

\* Telegram: the count 2 is stored, the warning and the delete are behind
\* the handler, the ban call is under way.
C38_Witness ==
    /\ platform = "telegram"
    /\ \E t \in Running :
          /\ t.pc = "ban" /\ t.writes = 1
          /\ t.attempted = {"warn", "delete"}
          /\ Stored(t.scope, t.user) = 2

====
